---------------------------- MODULE Spec2Model ----------------------------
(***************************************************************************)
(* Model of the dashboard views of usmanhardware-6:                        *)
(*   - the Inventory Log Viewer   (src/src/pages/InventoryLogs.tsx)        *)
(*   - the Log Type Classifier    (getLogTypeStyles, same file)            *)
(*   - the Monthly Report Widget  (src/src/components/dashboard/           *)
(*                                 MonthlyReportCard.tsx, src/unnamed/     *)
(*                                 part_000)                               *)
(* A JavaScript string is a sequence of one-character strings, so that     *)
(* toLowerCase is computed character by character.                         *)
(***************************************************************************)
EXTENDS Integers, Sequences, FiniteSets, TLC

VARIABLES
  \* ---- Inventory Log Viewer: the component's useState cells
  products,           \* useState<any[]>([])
  selectedProductId,  \* useState<string>("")
  logs,               \* useState<InventoryLog[]>([])
  loading,            \* useState(false)
  productsLoading,    \* useState(true)
  pagination,         \* useState({currentPage, totalPages, totalItems, itemsPerPage})
  searchTerm,         \* useState("")
  \* ---- Inventory Log Viewer: the requests and what can be observed of them
  catalogReq,         \* position of fetchProducts: "idle", "loading", "loaded", "failed"
  ncat,               \* number of catalog requests issued (productsApi.getAll calls)
  inflight,           \* log requests awaiting their response, each with the
                      \* logs and pagination held when it was issued
  nreq,               \* number of log requests issued (fetch calls of fetchLogs)
  latest,             \* the most recently issued log request and its outcome
  logsFor,            \* the request whose response the held logs/pagination came from
  lastOp,             \* the handler that ran last and what it did
  \* ---- Log Type Classifier, applied to one type at a time
  typeInput,          \* the argument of getLogTypeStyles
  typeStyles,         \* what the call returned or threw; NotClassified before it
  \* ---- Monthly Report Widget
  widget,             \* the variant mounted: "legacy" or "enhanced"
  query,              \* the useQuery result: data, error, and whether a fetch runs
  received,           \* the body the backend sent last, as it was sent
  rendered,           \* the projections computed when that body was rendered
  \* ---- Magnitude Formatter, applied to one value at a time
  value,              \* the argument of formatNumber
  formatted           \* what both copies of formatNumber returned; NotFormatted before

viewerVars == <<products, selectedProductId, logs, loading, productsLoading,
                pagination, searchTerm, catalogReq, ncat, inflight, nreq, latest, logsFor,
                lastOp>>

classifierVars == <<typeInput, typeStyles>>

reportVars == <<widget, query, received, rendered>>

formatterVars == <<value, formatted>>

vars == <<viewerVars, classifierVars, reportVars, formatterVars>>

-----------------------------------------------------------------------------
(* Bounds of the model *)

\* Log requests issued in one behaviour.
MaxRequests == 3

\* Largest totalPages the backend reports.
MaxPages == 3

\* A case variant of a recognised type has at most MaxFlips upper-case
\* letters, or at most MaxFlips lower-case ones.
MaxFlips == 2

\* Longest category list of a report, for lists of arbitrary entries.
MaxCategories == 2

\* Longest category list of a report, for lists of the numbered entries.
MaxLong == 12

\* Steps of the grid of values laid over each bracket of the formatter.
MaxGrid == 10

-----------------------------------------------------------------------------
(* JavaScript values *)

\* The value of a missing property; no string equals it.
Undefined == <<"#undefined">>

\* A property of a response body that may be missing: <<>> when it is
\* missing, <<v>> when it holds v.
Missing == <<>>

Present(v) == <<v>>

\* JavaScript's  o || fallback  for a property holding an object or an array.
OrElse(o, fallback) == IF o = Missing THEN fallback ELSE o[1]

\* JavaScript's  o || fallback  for a property holding a number: 0 is falsy.
NumOrElse(o, fallback) == IF o = Missing \/ o[1] = 0 THEN fallback ELSE o[1]

\* String literals of the source, as character sequences.
StrSale == <<"s", "a", "l", "e">>
StrPurchase == <<"p", "u", "r", "c", "h", "a", "s", "e">>
StrAdjustment == <<"a", "d", "j", "u", "s", "t", "m", "e", "n", "t">>
StrReturn == <<"r", "e", "t", "u", "r", "n">>

LowerLetters ==
  <<"a", "b", "c", "d", "e", "f", "g", "h", "i", "j", "k", "l", "m", "n",
    "o", "p", "q", "r", "s", "t", "u", "v", "w", "x", "y", "z">>

UpperLetters ==
  <<"A", "B", "C", "D", "E", "F", "G", "H", "I", "J", "K", "L", "M", "N",
    "O", "P", "Q", "R", "S", "T", "U", "V", "W", "X", "Y", "Z">>

\* One character of String.prototype.toLowerCase.
LowerChar(c) ==
  IF \E i \in 1..Len(UpperLetters) : UpperLetters[i] = c
    THEN LowerLetters[CHOOSE i \in 1..Len(UpperLetters) : UpperLetters[i] = c]
    ELSE c

UpperChar(c) ==
  IF \E i \in 1..Len(LowerLetters) : LowerLetters[i] = c
    THEN UpperLetters[CHOOSE i \in 1..Len(LowerLetters) : LowerLetters[i] = c]
    ELSE c

\* toLowerCase with a defect: the case is left as it is.
toLowerCaseKeepingCase(s) == s

\* String.prototype.toLowerCase.
toLowerCase(s) == [i \in 1..Len(s) |-> LowerChar(s[i])]

-----------------------------------------------------------------------------
(* Log Type Classifier *)

\* What evaluating type.toLowerCase() on a missing type produces.
TypeError == [threw |-> "TypeError"]

SaleStyles ==
  [icon |-> "ShoppingCart",
   color |-> "bg-red-100 text-red-700 dark:bg-red-900/30 dark:text-red-400",
   bgColor |-> "border-l-red-500"]

PurchaseStyles ==
  [icon |-> "Truck",
   color |-> "bg-green-100 text-green-700 dark:bg-green-900/30 dark:text-green-400",
   bgColor |-> "border-l-green-500"]

AdjustmentStyles ==
  [icon |-> "RefreshCw",
   color |-> "bg-blue-100 text-blue-700 dark:bg-blue-900/30 dark:text-blue-400",
   bgColor |-> "border-l-blue-500"]

ReturnStyles ==
  [icon |-> "RotateCcw",
   color |-> "bg-purple-100 text-purple-700 dark:bg-purple-900/30 dark:text-purple-400",
   bgColor |-> "border-l-purple-500"]

DefaultStyles ==
  [icon |-> "Package",
   color |-> "bg-gray-100 text-gray-700 dark:bg-gray-900/30 dark:text-gray-400",
   bgColor |-> "border-l-gray-500"]

\* getLogTypeStyles: the descriptor of a type, or the TypeError it throws.
getLogTypeStyles(type) ==
  IF type = Undefined THEN TypeError
  ELSE LET t == toLowerCase(type) IN
       CASE t = StrSale -> SaleStyles
         [] t = StrPurchase -> PurchaseStyles
         [] t = StrAdjustment -> AdjustmentStyles
         [] t = StrReturn -> ReturnStyles
         [] OTHER -> DefaultStyles

\* No call of getLogTypeStyles has been made.
NotClassified == [pending |-> TRUE]

ClassifierIdle == typeInput = <<>> /\ typeStyles = NotClassified

Min(a, b) == IF a <= b THEN a ELSE b

\* The sets of letter positions put in upper case: few of them, or all but few.
Masks(n) ==
  {m \in SUBSET (1..n) :
     Cardinality(m) <= MaxFlips \/ n - Cardinality(m) <= MaxFlips}

\* word with the letters at the positions of mask in upper case.
WithUpper(word, mask) ==
  [i \in 1..Len(word) |-> IF i \in mask THEN UpperChar(word[i]) ELSE word[i]]

CaseVariants(word) == {WithUpper(word, m) : m \in Masks(Len(word))}

RecognisedTypes == {StrSale, StrPurchase, StrAdjustment, StrReturn}

\* Strings that are no case variant of a recognised type: the empty string,
\* another word, and recognised words with a character more or less.
OtherTypes ==
  { <<>>,
    <<"o", "t", "h", "e", "r">>,
    <<"O", "T", "H", "E", "R">>,
    <<"s", "a", "l", "e", "s">>,
    <<"S", "A", "L">>,
    <<" ", "s", "a", "l", "e">>,
    <<"r", "e", "t", "u", "r", "n", " ">>,
    <<"p", "u", "r", "c", "h", "a", "s", "e", "d">>,
    <<"a", "d", "j", "u", "s", "t">> }

TypeInputs ==
  UNION {CaseVariants(w) : w \in RecognisedTypes} \cup OtherTypes \cup {Undefined}

\* s is word up to the case of its letters.
IsCaseVariant(s, word) ==
  /\ Len(s) = Len(word)
  /\ \A i \in 1..Len(word) : s[i] \in {word[i], UpperChar(word[i])}

ClassifierInit == typeInput \in TypeInputs /\ typeStyles = NotClassified

\* const typeStyles = getLogTypeStyles(log.type)
Classify ==
  /\ typeStyles = NotClassified
  /\ typeStyles' = getLogTypeStyles(typeInput)
  /\ UNCHANGED <<typeInput, viewerVars, reportVars, formatterVars>>

\* logs.map goes on to the next entry, unless the call threw.
NextType(t) ==
  /\ typeStyles # NotClassified
  /\ typeStyles # TypeError
  /\ typeInput' = t
  /\ typeStyles' = NotClassified
  /\ UNCHANGED <<viewerVars, reportVars, formatterVars>>

ClassifierNext ==
  \/ Classify
  \/ \E t \in TypeInputs : NextType(t)

-----------------------------------------------------------------------------
(* Magnitude Formatter *)

DigitChars == <<"0", "1", "2", "3", "4", "5", "6", "7", "8", "9">>

\* The decimal notation of a non-negative integer.
RECURSIVE ToDecimal(_)
ToDecimal(n) ==
  IF n < 10 THEN <<DigitChars[n + 1]>>
  ELSE ToDecimal(n \div 10) \o <<DigitChars[(n % 10) + 1]>>

RECURSIVE PadLeft(_, _)
PadLeft(s, f) == IF Len(s) < f THEN PadLeft(<<"0">> \o s, f) ELSE s

RECURSIVE Pow10(_)
Pow10(f) == IF f = 0 THEN 1 ELSE 10 * Pow10(f - 1)

RECURSIVE BitLength(_)
BitLength(n) == IF n = 0 THEN 0 ELSE 1 + BitLength(n \div 2)

\* The notation of n / 10^f with f digits after the point.
FixedString(n, f) ==
  IF f = 0 THEN ToDecimal(n)
  ELSE ToDecimal(n \div Pow10(f)) \o <<".">> \o PadLeft(ToDecimal(n % Pow10(f)), f)

\* The remainder of the binary long division of r by d after `bits` more
\* bits of the quotient, and the last bit produced.
RECURSIVE BinaryDivision(_, _, _, _)
BinaryDivision(r, d, bits, last) ==
  IF bits = 0 \/ r = 0 THEN [rem |-> r, last |-> IF r = 0 /\ bits > 0 THEN 0 ELSE last]
  ELSE BinaryDivision((2 * r) % d, d, bits - 1, IF 2 * r >= d THEN 1 ELSE 0)

\* The sign of (num / d as a double) - (num / d exactly), for num >= d: the
\* division rounds the quotient to 53 significant bits, ties to even.
DoubleErrorSign(num, d) ==
  LET int == num \div d
      end == BinaryDivision(num % d, d, 53 - BitLength(int), int % 2)
  IN IF end.rem = 0 THEN 0
     ELSE IF 2 * end.rem > d THEN 1
     ELSE IF 2 * end.rem < d THEN -1
     ELSE IF end.last = 1 THEN 1 ELSE -1

\* toFixed with a defect: the digits beyond the f-th are dropped.
toFixedTruncating(num, d, f) ==
  FixedString((num \div d) * Pow10(f) + ((num % d) * Pow10(f)) \div d, f)

\* (num / d).toFixed(f) for integers num >= d > 0: the n for which n / 10^f is
\* nearest to the double num / d, the larger n when two are equally near.
toFixed(num, d, f) ==
  LET below == (num \div d) * Pow10(f) + ((num % d) * Pow10(f)) \div d
      rest == ((num % d) * Pow10(f)) % d
      n == IF 2 * rest < d THEN below
           ELSE IF 2 * rest > d THEN below + 1
           ELSE IF DoubleErrorSign(num, d) >= 0 THEN below + 1 ELSE below
  IN FixedString(n, f)

\* The arguments of formatNumber: a non-negative integer, or a value that
\* Number() turns into NaN (undefined, a non-numeric string).
Num(v) == [nan |-> FALSE, n |-> v]

NaNValue == [nan |-> TRUE, n |-> 0]

\* formatNumber of src/components/dashboard/MonthlyReportCard.tsx.
formatNumber(val) ==
  IF val.nan THEN <<"0">>
  ELSE IF val.n >= 10000000 THEN toFixed(val.n, 10000000, 2) \o <<" ", "C", "r">>
  ELSE IF val.n >= 100000 THEN toFixed(val.n, 100000, 2) \o <<" ", "L", "a", "c">>
  ELSE IF val.n >= 1000 THEN toFixed(val.n, 1000, 1) \o <<"K">>
  ELSE toFixed(val.n, 1, 0)

\* formatNumber of the enhanced-stats widget.
formatNumberEnhanced(val) ==
  IF val.nan THEN <<"0">>
  ELSE IF val.n >= 10000000 THEN toFixed(val.n, 10000000, 2) \o <<" ", "C", "r">>
  ELSE IF val.n >= 100000 THEN toFixed(val.n, 100000, 2) \o <<" ", "L", "a", "c">>
  ELSE IF val.n >= 1000 THEN toFixed(val.n, 1000, 1) \o <<"K">>
  ELSE toFixed(val.n, 1, 0)

\* The values the formatter is applied to: the ends of every bracket, and a
\* grid over each bracket whose steps fall on the halves that toFixed rounds.
FormatterNumbers ==
  {0, 1, 7, 42, 999, 1000, 1001, 1049, 1051, 99949, 99999, 100000, 100001,
   100499, 100501, 9999499, 9999999, 10000000, 10000001, 10049999, 10050001}
    \cup {1000 + 50 * k : k \in 0..MaxGrid}
    \cup {100000 + 500 * k : k \in 0..MaxGrid}
    \cup {100000 + 12500 * k : k \in 0..MaxGrid}
    \cup {10000000 + 50000 * k : k \in 0..MaxGrid}
    \cup {10000000 + 1250000 * k : k \in 0..MaxGrid}

FormatterValues == {Num(v) : v \in FormatterNumbers} \cup {NaNValue}

\* No call of formatNumber has been made.
NotFormatted == [pending |-> TRUE]

FormatterIdle == value = NaNValue /\ formatted = NotFormatted

FormatterInit == value \in FormatterValues /\ formatted = NotFormatted

\* {formatNumber(...)} in either widget.
Format ==
  /\ formatted = NotFormatted
  /\ formatted' = [legacy |-> formatNumber(value),
                   enhanced |-> formatNumberEnhanced(value)]
  /\ UNCHANGED <<value, viewerVars, classifierVars, reportVars>>

\* The next value rendered.
NextValue(v) ==
  /\ formatted # NotFormatted
  /\ value' = v
  /\ formatted' = NotFormatted
  /\ UNCHANGED <<viewerVars, classifierVars, reportVars>>

FormatterNext ==
  \/ Format
  \/ \E v \in FormatterValues : NextValue(v)

-----------------------------------------------------------------------------
(* Monthly Report Widget *)

CHART_COLORS ==
  <<"#3b82f6", "#10b981", "#f59e0b", "#ef4444", "#8b5cf6",
    "#ec4899", "#06b6d4", "#84cc16", "#f97316", "#6366f1">>

\* Category names: two short ones and one of 14 characters.
NameA == <<"A">>

NameB == <<"B">>

\* A short name that itself ends with three dots.
NameDots == <<"E", "t", "c", ".", ".", ".">>

NameLong ==
  <<"H", "a", "r", "d", "w", "a", "r", "e", " ", "T", "o", "o", "l", "s">>

\* CategorySalesData of GET /reports/monthly-category-sales; the third entry
\* has no category name.
LegacyEntries ==
  { [category |-> NameA, totalQuantity |-> 100, totalRevenue |-> 500,
     productCount |-> 4],
    [category |-> NameB, totalQuantity |-> 300, totalRevenue |-> 200,
     productCount |-> 2],
    [category |-> Undefined, totalQuantity |-> 50, totalRevenue |-> 10,
     productCount |-> 1],
    [category |-> NameLong, totalQuantity |-> 100, totalRevenue |-> 50,
     productCount |-> 3],
    [category |-> NameDots, totalQuantity |-> 70, totalRevenue |-> 30,
     productCount |-> 2] }

\* CategoryPerformance of the enhanced dashboard stats; the third entry has
\* no category name, the last neither units nor revenue.
EnhancedEntries ==
  { [category |-> NameA, unitsSold |-> Present(100), revenue |-> Present(500)],
    [category |-> NameB, unitsSold |-> Present(300), revenue |-> Present(200)],
    [category |-> Undefined, unitsSold |-> Present(50), revenue |-> Present(10)],
    [category |-> NameLong, unitsSold |-> Present(100), revenue |-> Present(50)],
    [category |-> NameDots, unitsSold |-> Present(70), revenue |-> Present(30)],
    [category |-> <<"C">>, unitsSold |-> Missing, revenue |-> Missing] }

\* The lists of at most n elements of S.
ListsUpTo(S, n) == UNION {[1..k -> S] : k \in 0..n}

Alphabet ==
  <<"a", "b", "c", "d", "e", "f", "g", "h", "i", "j", "k", "l", "m", "n",
    "o", "p", "q", "r", "s", "t", "u", "v", "w", "x", "y", "z">>

\* The name of the i-th numbered category: i + 6 characters, so that the
\* names run across the limits of 12 and 15 characters.
LongName(i) == SubSeq(Alphabet, 1, i + 6)

\* The i-th numbered category: the volumes repeat with period 4, the
\* revenues grow with i.
LongLegacyEntry(i) ==
  [category |-> LongName(i), totalQuantity |-> 100 * ((3 * i) % 4),
   totalRevenue |-> 10 * i, productCount |-> i]

LongEnhancedEntry(i) ==
  [category |-> LongName(i), unitsSold |-> Present(100 * ((3 * i) % 4)),
   revenue |-> Present(10 * i)]

\* The lists of numbered categories longer than MaxCategories, starting at
\* any of four places of the numbering.
LongLegacyLists ==
  {[i \in 1..n |-> LongLegacyEntry(((i + o - 1) % MaxLong) + 1)] :
     n \in (MaxCategories + 1)..MaxLong, o \in 0..3}

LongEnhancedLists ==
  {[i \in 1..n |-> LongEnhancedEntry(((i + o - 1) % MaxLong) + 1)] :
     n \in (MaxCategories + 1)..MaxLong, o \in 0..3}

LegacyLists == ListsUpTo(LegacyEntries, MaxCategories) \cup LongLegacyLists

EnhancedLists == ListsUpTo(EnhancedEntries, MaxCategories) \cup LongEnhancedLists

\* The bodies of the legacy endpoint: { data: { categories: [...] } }, with
\* the data object or its category list possibly missing (or null).
LegacyBodies ==
  [data : {Missing} \cup
          {Present(r) : r \in
             [categories : {Missing} \cup {Present(c) : c \in LegacyLists}]}]

\* The bodies of the enhanced endpoint:
\* { data: { performance: { categoryPerformance: [...] },
\*           financial: { monthRevenue: n } } }, with any level possibly
\* missing.
EnhancedBodies ==
  [data : {Missing} \cup
          {Present(d) : d \in
             [performance : {Missing} \cup
                {Present(pf) : pf \in
                   [categoryPerformance : {Missing} \cup
                      {Present(c) : c \in EnhancedLists}]},
              financial : {Missing} \cup
                {Present(fin) : fin \in
                   [monthRevenue : {Missing, Present(0), Present(700)}]}]}]

Bodies(w) == IF w = "legacy" THEN LegacyBodies ELSE EnhancedBodies

\* Array.prototype.sort with the comparator (a, b) => b.key - a.key, on a
\* list of [key, item] pairs: a stable sort, descending by key.
\* The insertion with a defect: p goes before the elements of equal key.
RECURSIVE InsertByKeyUnstable(_, _)
InsertByKeyUnstable(p, sorted) ==
  IF sorted = <<>> THEN <<p>>
  ELSE IF Head(sorted).key > p.key
    THEN <<Head(sorted)>> \o InsertByKeyUnstable(p, Tail(sorted))
    ELSE <<p>> \o sorted

RECURSIVE InsertByKey(_, _)
InsertByKey(p, sorted) ==
  IF sorted = <<>> THEN <<p>>
  ELSE IF Head(sorted).key >= p.key
    THEN <<Head(sorted)>> \o InsertByKey(p, Tail(sorted))
    ELSE <<p>> \o sorted

RECURSIVE SortByKeyDesc(_)
SortByKeyDesc(ps) ==
  IF ps = <<>> THEN <<>>
  ELSE InsertByKey(ps[Len(ps)], SortByKeyDesc(SubSeq(ps, 1, Len(ps) - 1)))

\* Array.prototype.slice(0, n).
Slice(s, n) == SubSeq(s, 1, Min(n, Len(s)))

\* The display name with a defect: every name gets the marker.
TruncateAlways(name, n) == SubSeq(name, 1, Min(n, Len(name))) \o <<".", ".", ".">>

\* name.length > n ? name.substring(0, n) + '...' : name
Truncate(name, n) ==
  IF Len(name) > n THEN SubSeq(name, 1, n) \o <<".", ".", ".">> ELSE name

\* CHART_COLORS[index % CHART_COLORS.length], for the 0-based index.
ColorAt(index) == CHART_COLORS[(index % Len(CHART_COLORS)) + 1]

\* [...categories].sort((a, b) => b.totalQuantity - a.totalQuantity)
LegacySorted(categories) ==
  LET keyed == [i \in 1..Len(categories) |->
                  [key |-> categories[i].totalQuantity, item |-> categories[i]]]
      sorted == SortByKeyDesc(keyed)
  IN [i \in 1..Len(sorted) |-> sorted[i].item]

\* [...categoryPerformance].sort((a, b) => (b.unitsSold || 0) - (a.unitsSold || 0))
EnhancedSorted(categories) ==
  LET keyed == [i \in 1..Len(categories) |->
                  [key |-> NumOrElse(categories[i].unitsSold, 0),
                   item |-> categories[i]]]
      sorted == SortByKeyDesc(keyed)
  IN [i \in 1..Len(sorted) |-> sorted[i].item]

\* cat.category.length throws a TypeError for an entry without a category.
NamelessIn(top) == \E i \in 1..Len(top) : top[i].category = Undefined

\* barChartData of the legacy widget, for a list whose first 8 are named.
LegacyBarChartData(categories) ==
  LET top == Slice(LegacySorted(categories), 8)
  IN [i \in 1..Len(top) |->
        [name |-> Truncate(top[i].category, 12), fullName |-> top[i].category,
         quantity |-> top[i].totalQuantity, revenue |-> top[i].totalRevenue,
         products |-> top[i].productCount, fill |-> ColorAt(i - 1)]]

\* pieChartData of the legacy widget, for a list whose first 6 are named.
LegacyPieChartData(categories) ==
  LET top == Slice(LegacySorted(categories), 6)
  IN [i \in 1..Len(top) |->
        [name |-> Truncate(top[i].category, 15),
         value |-> top[i].totalQuantity, revenue |-> top[i].totalRevenue,
         color |-> ColorAt(i - 1)]]

\* barChartData of the enhanced widget, for a list whose first 8 are named.
EnhancedBarChartData(categories) ==
  LET top == Slice(EnhancedSorted(categories), 8)
  IN [i \in 1..Len(top) |->
        [name |-> Truncate(top[i].category, 12), fullName |-> top[i].category,
         quantity |-> NumOrElse(top[i].unitsSold, 0),
         revenue |-> NumOrElse(top[i].revenue, 0), fill |-> ColorAt(i - 1)]]

\* pieChartData of the enhanced widget with a defect: the pie chart ranks by
\* revenue.
EnhancedPieChartDataByRevenue(categories) ==
  LET keyed == [i \in 1..Len(categories) |->
                  [key |-> NumOrElse(categories[i].revenue, 0),
                   item |-> categories[i]]]
      sorted == SortByKeyDesc(keyed)
      top == Slice([i \in 1..Len(sorted) |-> sorted[i].item], 6)
  IN [i \in 1..Len(top) |->
        [name |-> Truncate(top[i].category, 15),
         value |-> NumOrElse(top[i].unitsSold, 0),
         revenue |-> NumOrElse(top[i].revenue, 0), color |-> ColorAt(i - 1)]]

\* pieChartData of the enhanced widget, for a list whose first 6 are named.
EnhancedPieChartData(categories) ==
  LET top == Slice(EnhancedSorted(categories), 6)
  IN [i \in 1..Len(top) |->
        [name |-> Truncate(top[i].category, 15),
         value |-> NumOrElse(top[i].unitsSold, 0),
         revenue |-> NumOrElse(top[i].revenue, 0), color |-> ColorAt(i - 1)]]

\* The rows of the table of the legacy widget: the first 10 by volume, the
\* name as it is.
LegacyTableRows(categories) ==
  LET top == Slice(LegacySorted(categories), 10)
  IN [i \in 1..Len(top) |->
        [name |-> top[i].category, products |-> top[i].productCount,
         quantity |-> top[i].totalQuantity, revenue |-> top[i].totalRevenue,
         color |-> ColorAt(i - 1)]]

\* The rows of the table of the enhanced widget.
EnhancedTableRows(categories) ==
  LET top == Slice(EnhancedSorted(categories), 10)
  IN [i \in 1..Len(top) |->
        [name |-> top[i].category, quantity |-> NumOrElse(top[i].unitsSold, 0),
         revenue |-> NumOrElse(top[i].revenue, 0), color |-> ColorAt(i - 1)]]

\* categoryPerformance.reduce((sum, cat) => sum + (cat.unitsSold || 0), 0)
RECURSIVE SumUnitsSold(_)
SumUnitsSold(categories) ==
  IF categories = <<>> THEN 0
  ELSE SumUnitsSold(SubSeq(categories, 1, Len(categories) - 1))
         + NumOrElse(categories[Len(categories)].unitsSold, 0)

\* categoryPerformance.reduce((sum, cat) => sum + (cat.revenue || 0), 0)
RECURSIVE SumRevenue(_)
SumRevenue(categories) ==
  IF categories = <<>> THEN 0
  ELSE SumRevenue(SubSeq(categories, 1, Len(categories) - 1))
         + NumOrElse(categories[Len(categories)].revenue, 0)

\* isLoading of useQuery: the first fetch runs and there is no data yet.
isLoading == query.fetching /\ query.data = Missing

\* const report = reportData?.data || { ..., categories: [], ... }
LegacyReport ==
  IF query.data = Missing \/ query.data[1].data = Missing
    THEN [categories |-> Present(<<>>)]
    ELSE query.data[1].data[1]

\* enhancedData?.data?.performance?.categoryPerformance || []
categoryPerformance ==
  IF query.data = Missing THEN <<>>
  ELSE IF query.data[1].data = Missing THEN <<>>
  ELSE IF query.data[1].data[1].performance = Missing THEN <<>>
  ELSE OrElse(query.data[1].data[1].performance[1].categoryPerformance, <<>>)

\* enhancedData?.data?.financial?.monthRevenue
monthRevenue ==
  IF query.data = Missing THEN Missing
  ELSE IF query.data[1].data = Missing THEN Missing
  ELSE IF query.data[1].data[1].financial = Missing THEN Missing
  ELSE query.data[1].data[1].financial[1].monthRevenue

totalQuantitySold == SumUnitsSold(categoryPerformance)

\* monthRevenue || categoryPerformance.reduce(...)
totalRevenue == NumOrElse(monthRevenue, SumRevenue(categoryPerformance))

\* What the legacy widget renders: the chart data are computed first, then
\* the loading and error branches return, then report.categories.length is
\* read to choose between the empty panel and the charts.
LegacyPanel ==
  IF NamelessIn(Slice(LegacySorted(OrElse(LegacyReport.categories, <<>>)), 8))
    THEN "TypeError"
  ELSE IF isLoading THEN "skeleton"
  ELSE IF query.error THEN "error"
  ELSE IF LegacyReport.categories = Missing THEN "TypeError"
  ELSE IF Len(LegacyReport.categories[1]) = 0 THEN "empty"
  ELSE "charts"

\* What the enhanced widget renders.
EnhancedPanel ==
  IF NamelessIn(Slice(EnhancedSorted(categoryPerformance), 8)) THEN "TypeError"
  ELSE IF isLoading THEN "skeleton"
  ELSE IF query.error THEN "error"
  ELSE IF Len(categoryPerformance) = 0 THEN "empty"
  ELSE "charts"

\* The category list the mounted widget derives its views from.
Categories ==
  IF widget = "legacy" THEN OrElse(LegacyReport.categories, <<>>)
  ELSE categoryPerformance

barChartData ==
  IF widget = "legacy" THEN LegacyBarChartData(Categories)
  ELSE EnhancedBarChartData(Categories)

pieChartData ==
  IF widget = "legacy" THEN LegacyPieChartData(Categories)
  ELSE EnhancedPieChartData(Categories)

tableRows ==
  IF widget = "legacy" THEN LegacyTableRows(Categories)
  ELSE EnhancedTableRows(Categories)

\* The panel on screen, or "TypeError" when rendering threw.
Panel == IF widget = "legacy" THEN LegacyPanel ELSE EnhancedPanel

\* No report widget is mounted.
\* The three projections of a category list in widget w.
Views(w, list) ==
  IF w = "legacy"
    THEN [bar |-> LegacyBarChartData(list), pie |-> LegacyPieChartData(list),
          table |-> LegacyTableRows(list)]
    ELSE [bar |-> EnhancedBarChartData(list), pie |-> EnhancedPieChartData(list),
          table |-> EnhancedTableRows(list)]

\* The projections of an empty list: what is computed before data arrive.
NoViews == [bar |-> <<>>, pie |-> <<>>, table |-> <<>>]

ReportIdle ==
  /\ widget = "none"
  /\ query = [data |-> Missing, error |-> FALSE, fetching |-> FALSE]
  /\ received = Missing
  /\ rendered = NoViews

\* useQuery on mount: the first fetch is running.
ReportInit ==
  /\ widget \in {"legacy", "enhanced"}
  /\ query = [data |-> Missing, error |-> FALSE, fetching |-> TRUE]
  /\ received = Missing
  /\ rendered = NoViews

\* One level of the body with its category list replaced.
WithList(body, list) ==
  IF "categories" \in DOMAIN body.data[1]
    THEN [data |-> Present([body.data[1] EXCEPT !.categories = Present(list)])]
    ELSE [data |-> Present([body.data[1] EXCEPT
            !.performance = Present([categoryPerformance |-> Present(list)])])]

\* The category list of a body, where it has one.
ListOf(body) ==
  IF body.data = Missing THEN Missing
  ELSE IF "categories" \in DOMAIN body.data[1] THEN body.data[1].categories
  ELSE IF body.data[1].performance = Missing THEN Missing
  ELSE body.data[1].performance[1].categoryPerformance

\* The projections with a defect: sort() is applied to the list of the body
\* itself, which leaves the cached body sorted.
AfterProjectionsInPlace(body) ==
  IF ListOf(body) = Missing THEN body
  ELSE IF "categories" \in DOMAIN body.data[1]
    THEN WithList(body, LegacySorted(ListOf(body)[1]))
    ELSE WithList(body, EnhancedSorted(ListOf(body)[1]))

\* The cached body after a render computed the three projections: each
\* sorts a copy, [...list].sort(...), so the body is as it was.
AfterProjections(body) == body

\* What the render of a body computes: the projections of its category
\* list, or the TypeError of the first nameless category among the first 8.
RenderOf(w, body) ==
  LET list == OrElse(ListOf(body), <<>>)
      sorted == IF w = "legacy" THEN LegacySorted(list) ELSE EnhancedSorted(list)
  IN IF NamelessIn(Slice(sorted, 8)) THEN TypeError ELSE Views(w, list)

\* The queryFn resolved with body, and the widget rendered it.
QueryResolved(body) ==
  /\ Panel # "TypeError"
  /\ query.fetching
  /\ query' = [data |-> Present(AfterProjections(body)), error |-> FALSE,
               fetching |-> FALSE]
  /\ received' = Present(body)
  /\ rendered' = RenderOf(widget, body)
  /\ UNCHANGED <<widget, viewerVars, classifierVars, formatterVars>>

\* The queryFn threw (fetch rejected, !response.ok, invalid JSON) and the
\* retries are used up: the data of an earlier success are kept.
QueryFailed ==
  /\ Panel # "TypeError"
  /\ query.fetching
  /\ query' = [query EXCEPT !.error = TRUE, !.fetching = FALSE]
  /\ UNCHANGED <<widget, received, rendered, viewerVars, classifierVars, formatterVars>>

\* refetchInterval: 5 * 60 * 1000. A fetch that starts without data resets
\* the query to its loading state.
RefetchTick ==
  /\ Panel # "TypeError"
  /\ ~query.fetching
  /\ query' = [query EXCEPT !.fetching = TRUE,
                            !.error = IF query.data = Missing THEN FALSE ELSE @]
  /\ UNCHANGED <<widget, received, rendered, viewerVars, classifierVars, formatterVars>>

ReportNext ==
  \/ \E body \in Bodies(widget) : QueryResolved(body)
  \/ QueryFailed
  \/ RefetchTick

-----------------------------------------------------------------------------
(* Inventory Log Viewer: the data the backend serves *)

\* The products of GET /products (id unique within the catalog); the second
\* one has no sku.
Catalog ==
  << [id |-> "1", name |-> <<"W", "i", "d", "g", "e", "t">>, sku |-> <<"W", "1">>],
     [id |-> "2", name |-> <<"G", "a", "d", "g", "e", "t">>, sku |-> Undefined] >>

\* What is typed into the search box: nothing, letters of both names in
\* upper case, a sku in lower case, and letters of no product.
SearchTerms == { <<>>, <<"D", "G">>, <<"w", "1">>, <<"z", "z">> }

ProductIds == {Catalog[i].id : i \in 1..Len(Catalog)}

\* useState initial value of pagination, and the fallback of setPagination.
DefaultPagination ==
  [currentPage |-> 1, totalPages |-> 1, totalItems |-> 0, itemsPerPage |-> 20]

\* The pagination object the backend serves for a request of page `page` of
\* a log of t pages: the page asked for, or the last one when the log is
\* shorter; totalItems is an item count that fills exactly t pages of 20.
ServedPagination(page, t) ==
  [currentPage |-> IF page > t THEN t ELSE page, totalPages |-> t,
   totalItems |-> 20 * (t - 1) + 1, itemsPerPage |-> 20]

\* A log entry of a product: its type, its quantity field and the balances
\* around the movement.
Entry(pid, type, quantity, before, after) ==
  [productId |-> pid, type |-> type, quantity |-> quantity,
   balanceBefore |-> before, balanceAfter |-> after]

\* The lists of log entries the backend serves for a product.
LogLists(pid) ==
  { <<>>,
    << Entry(pid, <<"S", "A", "L", "E">>, 20, 50, 30),
       Entry(pid, <<"o", "t", "h", "e", "r">>, 7, 30, 30),
       Entry(pid, <<"R", "e", "t", "u", "r", "n">>, 12, 30, 42) >>,
    << Entry(pid, StrPurchase, 10, 30, 40), Entry(pid, Undefined, 0, 40, 40) >> }

\* The data objects of a response to request r that reports success: logs
\* and pagination, either of which may be missing.
SuccessBodies(r) ==
  [logs : {Missing} \cup {Present(l) : l \in LogLists(r.pid)},
   pagination : {Missing} \cup
                {Present(ServedPagination(r.page, t)) : t \in 1..MaxPages}]

\* How a log request can end: the fetch rejects, the body is not JSON, the
\* body does not report success, it reports success without a data object,
\* or it reports success with one.
FailureKinds == {"reject", "badJson", "notSuccess", "noData"}

\* The HTTP status classes of a response that arrived.
StatusClasses == {"2xx", "non2xx"}

NoRequest == [pid |-> "", page |-> 0]

\* What lastOp holds: the handler, how the response it handled ended (kind),
\* the status class of that response (net) and whether it raised a toast.
Op(op, kind, net, toast) == [op |-> op, kind |-> kind, net |-> net, toast |-> toast]

UserOps == {"select", "refresh", "previous", "next"}

-----------------------------------------------------------------------------
(* Inventory Log Viewer: what is rendered *)

\* String.prototype.includes with a defect: only the start is compared.
IncludesAtStart(str, term) ==
  Len(term) <= Len(str) /\ SubSeq(str, 1, Len(term)) = term

\* String.prototype.includes.
Includes(str, term) ==
  \E i \in 0..(Len(str) - Len(term)) : SubSeq(str, i + 1, i + Len(term)) = term

\* p.name?.toLowerCase().includes(term): undefined, so falsy, for a missing
\* property.
LowerIncludes(prop, term) ==
  IF prop = Undefined THEN FALSE ELSE Includes(toLowerCase(prop), term)

\* filteredProducts: the catalog for an empty term, else the products whose
\* name or sku includes the lower-cased term.
filteredProducts ==
  IF searchTerm = <<>> THEN products
  ELSE LET term == toLowerCase(searchTerm)
       IN SelectSeq(products,
            LAMBDA p : LowerIncludes(p.name, term) \/ LowerIncludes(p.sku, term))

\* The values of the SelectItems of the product dropdown.
SelectOptions == {filteredProducts[i].id : i \in 1..Len(filteredProducts)}

\* selectedProductId ? <Card> ... : placeholder
LogsSectionShown == selectedProductId # ""

\* The entry list: neither the spinner nor the "No Activity Yet" panel.
ListShown == LogsSectionShown /\ ~loading /\ Len(logs) # 0

\* The entry count badge: {!loading && <Badge>}.
BadgeShown == LogsSectionShown /\ ~loading

\* The Previous/Next row, nested in the entry list.
PaginationShown == ListShown /\ pagination.totalPages > 1

PrevDisabled == pagination.currentPage <= 1

\* The disabled condition of Next, off by one.
NextDisabledPastEnd == pagination.currentPage > pagination.totalPages

NextDisabled == pagination.currentPage >= pagination.totalPages

RefreshDisabled == loading

\* The delta with a defect: the quantity field of the entry.
quantityChangeFromQuantity(log) == log.quantity

\* const quantityChange = log.balanceAfter - log.balanceBefore
quantityChange(log) == log.balanceAfter - log.balanceBefore

\* const isPositive = quantityChange >= 0
isPositive(log) == quantityChange(log) >= 0

\* A number as JSX renders it.
NumberString(n) == IF n < 0 THEN <<"-">> \o ToDecimal(-n) ELSE ToDecimal(n)

\* The delta of an entry on screen: the indicator and
\* {isPositive ? '+' : ''}{quantityChange}.
DeltaShown(log) ==
  [icon |-> IF isPositive(log) THEN "TrendingUp" ELSE "TrendingDown",
   text |-> (IF isPositive(log) THEN <<"+">> ELSE <<>>)
              \o NumberString(quantityChange(log))]

\* logs.map(...) calls getLogTypeStyles(log.type) for every entry shown; a
\* TypeError thrown while rendering unmounts the component.
RenderThrows ==
  ListShown /\ \E i \in 1..Len(logs) : getLogTypeStyles(logs[i].type) = TypeError

-----------------------------------------------------------------------------
(* Inventory Log Viewer: the handlers *)

ViewerInit ==
  /\ products = <<>>
  /\ selectedProductId = ""
  /\ logs = <<>>
  /\ loading = FALSE
  /\ productsLoading = TRUE
  /\ pagination = DefaultPagination
  /\ searchTerm = <<>>
  /\ catalogReq = "idle"
  /\ ncat = 0
  /\ inflight = {}
  /\ nreq = 0
  /\ latest = [id |-> 0, pid |-> "", page |-> 0, outcome |-> "none"]
  /\ logsFor = NoRequest
  /\ lastOp = Op("init", "none", "none", FALSE)

\* useEffect(() => { fetchProducts() }, []): fetchProducts up to its await.
Mount ==
  /\ catalogReq = "idle"
  /\ productsLoading' = TRUE
  /\ catalogReq' = "loading"
  /\ ncat' = ncat + 1
  /\ lastOp' = Op("mount", "none", "none", FALSE)
  /\ UNCHANGED <<products, selectedProductId, logs, loading, pagination,
                 inflight, nreq, latest, logsFor>>
  /\ UNCHANGED <<searchTerm, classifierVars, reportVars, formatterVars>>

\* fetchProducts after productsApi.getAll() resolved; body is
\* response.data?.products.
CatalogLoaded(body) ==
  /\ catalogReq = "loading"
  /\ products' = IF body = Missing THEN products ELSE body[1]
  /\ productsLoading' = FALSE
  /\ catalogReq' = "loaded"
  /\ lastOp' = Op("catalogResponse", "ok", "2xx", FALSE)
  /\ UNCHANGED <<selectedProductId, logs, loading, pagination, ncat,
                 inflight, nreq, latest, logsFor>>
  /\ UNCHANGED <<searchTerm, classifierVars, reportVars, formatterVars>>

\* fetchProducts with a defect: the catch block asks again.
CatalogFailedRetrying ==
  /\ catalogReq = "loading"
  /\ productsLoading' = TRUE
  /\ catalogReq' = "loading"
  /\ ncat' = ncat + 1
  /\ lastOp' = Op("catalogResponse", "reject", "rejected", TRUE)
  /\ UNCHANGED <<products, selectedProductId, logs, loading, pagination,
                 inflight, nreq, latest, logsFor>>
  /\ UNCHANGED <<searchTerm, classifierVars, reportVars, formatterVars>>

\* fetchProducts after productsApi.getAll() rejected: catch, then finally.
CatalogFailed ==
  /\ catalogReq = "loading"
  /\ productsLoading' = FALSE
  /\ catalogReq' = "failed"
  /\ lastOp' = Op("catalogResponse", "reject", "rejected", TRUE)
  /\ UNCHANGED <<products, selectedProductId, logs, loading, pagination, ncat,
                 inflight, nreq, latest, logsFor>>
  /\ UNCHANGED <<searchTerm, classifierVars, reportVars, formatterVars>>

\* fetchLogs(productId, page) up to its first await: the guard,
\* setLoading(true) and the fetch call.
fetchLogs(productId, page) ==
  IF productId = ""
    THEN UNCHANGED <<loading, inflight, nreq, latest>>
    ELSE /\ nreq < MaxRequests
         /\ loading' = TRUE
         /\ nreq' = nreq + 1
         /\ inflight' = inflight \cup
              {[id |-> nreq + 1, pid |-> productId, page |-> page,
                held |-> [logs |-> logs, pagination |-> pagination]]}
         /\ latest' = [id |-> nreq + 1, pid |-> productId, page |-> page,
                       outcome |-> "pending"]

\* onValueChange={setSelectedProductId} with a new value, and the effect on
\* [selectedProductId] that follows the re-render.
SelectProduct(pid) ==
  /\ ~RenderThrows
  /\ pid \in SelectOptions
  /\ pid # selectedProductId
  /\ selectedProductId' = pid
  /\ IF pid # "" THEN fetchLogs(pid, 1)
                 ELSE UNCHANGED <<loading, inflight, nreq, latest>>
  /\ lastOp' = Op("select", "none", "none", FALSE)
  /\ UNCHANGED <<products, logs, productsLoading, pagination, catalogReq,
                 ncat, logsFor>>
  /\ UNCHANGED <<searchTerm, classifierVars, reportVars, formatterVars>>

\* The Refresh button.
Refresh ==
  /\ ~RenderThrows
  /\ LogsSectionShown
  /\ ~RefreshDisabled
  /\ fetchLogs(selectedProductId, pagination.currentPage)
  /\ lastOp' = Op("refresh", "none", "none", FALSE)
  /\ UNCHANGED <<products, selectedProductId, logs, productsLoading,
                 pagination, catalogReq, ncat, logsFor>>
  /\ UNCHANGED <<searchTerm, classifierVars, reportVars, formatterVars>>

\* The Previous button.
Previous ==
  /\ ~RenderThrows
  /\ PaginationShown
  /\ ~PrevDisabled
  /\ fetchLogs(selectedProductId, pagination.currentPage - 1)
  /\ lastOp' = Op("previous", "none", "none", FALSE)
  /\ UNCHANGED <<products, selectedProductId, logs, productsLoading,
                 pagination, catalogReq, ncat, logsFor>>
  /\ UNCHANGED <<searchTerm, classifierVars, reportVars, formatterVars>>

\* The Next button.
NextPage ==
  /\ ~RenderThrows
  /\ PaginationShown
  /\ ~NextDisabled
  /\ fetchLogs(selectedProductId, pagination.currentPage + 1)
  /\ lastOp' = Op("next", "none", "none", FALSE)
  /\ UNCHANGED <<products, selectedProductId, logs, productsLoading,
                 pagination, catalogReq, ncat, logsFor>>
  /\ UNCHANGED <<searchTerm, classifierVars, reportVars, formatterVars>>

\* What the response of request r leaves of the bookkeeping: r is no longer
\* in flight, and the most recent request learns its outcome.
Settled(r, outcome) ==
  /\ inflight' = inflight \ {r}
  /\ latest' = IF latest.id = r.id THEN [latest EXCEPT !.outcome = outcome]
                                   ELSE latest

\* fetchLogs after its awaits, for a 2xx response whose body reports success
\* and holds a data object: setLogs, setPagination, then finally.
LogsLoaded(r, data) ==
  /\ ~RenderThrows
  /\ r \in inflight
  /\ logs' = OrElse(data.logs, <<>>)
  /\ pagination' = OrElse(data.pagination, DefaultPagination)
  /\ loading' = FALSE
  /\ logsFor' = [pid |-> r.pid, page |-> r.page]
  /\ Settled(r, "ok")
  /\ lastOp' = Op("logsResponse", "ok", "2xx", FALSE)
  /\ UNCHANGED <<products, selectedProductId, productsLoading, catalogReq,
                 ncat, nreq>>
  /\ UNCHANGED <<searchTerm, classifierVars, reportVars, formatterVars>>

\* The failures that throw inside the try block: the rejected fetch, the
\* failing response.json(), and data.data.logs on a missing data object. A
\* parsed body whose success flag is not set only skips the if.
Throws(kind) == kind \in {"reject", "badJson", "noData"}

\* catch (error) is unconditional: it runs for whatever the try block throws,
\* and raises the toast.
CatchRuns(kind) == Throws(kind)

\* The logs and pagination after a failed request, with a defect: the list
\* is emptied.
AfterFailureEmptied(kind) == [logs |-> <<>>, pagination |-> pagination]

\* The logs and pagination after a failed request: no setter ran.
AfterFailure(kind) == [logs |-> logs, pagination |-> pagination]

\* fetchLogs after a failure, with a defect: setLoading(false) sits at the
\* end of the try block instead of in finally, so a failure skips it.
LogsFailedWithoutFinally(r, kind, net) ==
  /\ ~RenderThrows
  /\ r \in inflight
  /\ (kind = "reject") <=> (net = "rejected")
  /\ logs' = AfterFailure(kind).logs
  /\ pagination' = AfterFailure(kind).pagination
  /\ loading' = loading
  /\ Settled(r, "failed")
  /\ lastOp' = Op("logsResponse", kind, net, CatchRuns(kind))
  /\ UNCHANGED <<products, selectedProductId, productsLoading, catalogReq,
                 ncat, nreq, logsFor>>
  /\ UNCHANGED <<searchTerm, classifierVars, reportVars, formatterVars>>

\* fetchLogs after a failure: the catch block where it runs, then finally.
LogsFailed(r, kind, net) ==
  /\ ~RenderThrows
  /\ r \in inflight
  /\ (kind = "reject") <=> (net = "rejected")
  /\ logs' = AfterFailure(kind).logs
  /\ pagination' = AfterFailure(kind).pagination
  /\ loading' = FALSE
  /\ Settled(r, "failed")
  /\ lastOp' = Op("logsResponse", kind, net, CatchRuns(kind))
  /\ UNCHANGED <<products, selectedProductId, productsLoading, catalogReq,
                 ncat, nreq, logsFor>>
  /\ UNCHANGED <<searchTerm, classifierVars, reportVars, formatterVars>>

\* onChange={(e) => setSearchTerm(e.target.value)}
SetSearchTerm(term) ==
  /\ ~RenderThrows
  /\ term # searchTerm
  /\ searchTerm' = term
  /\ lastOp' = Op("search", "none", "none", FALSE)
  /\ UNCHANGED <<products, selectedProductId, logs, loading, productsLoading,
                 pagination, catalogReq, ncat, inflight, nreq, latest, logsFor>>
  /\ UNCHANGED <<classifierVars, reportVars, formatterVars>>

ViewerNext ==
  \/ Mount
  \/ \E body \in {Missing, Present(Catalog), Present(<<>>)} : CatalogLoaded(body)
  \/ CatalogFailed
  \/ \E pid \in ProductIds : SelectProduct(pid)
  \/ Refresh
  \/ Previous
  \/ NextPage
  \/ \E r \in inflight :
       \E data \in SuccessBodies(r) : LogsLoaded(r, data)
  \/ \E r \in inflight, kind \in FailureKinds,
        net \in StatusClasses \cup {"rejected"} : LogsFailed(r, kind, net)

\* The classifier alone, applied to one type after the other.
InitClassifier == ClassifierInit /\ ViewerInit /\ ReportIdle /\ FormatterIdle

SpecClassifier == InitClassifier /\ [][ClassifierNext]_vars

\* The report widget alone, in either variant.
InitReport == ReportInit /\ ViewerInit /\ ClassifierIdle /\ FormatterIdle

SpecReport == InitReport /\ [][ReportNext]_vars

\* The formatter alone, applied to one value after the other.
InitFormatter == FormatterInit /\ ViewerInit /\ ClassifierIdle /\ ReportIdle

SpecFormatter == InitFormatter /\ [][FormatterNext]_vars

\* The viewer alone, with the search box left empty: the classifier and the
\* report widget are not exercised.
Init == ViewerInit /\ ClassifierIdle /\ ReportIdle /\ FormatterIdle

Next == ViewerNext

Spec == Init /\ [][Next]_vars

\* The viewer with its search box: the catalog, the search, the selection
\* from the filtered dropdown and the logs loaded for it.
SearchNext ==
  \/ Mount
  \/ \E body \in {Missing, Present(Catalog), Present(<<>>)} : CatalogLoaded(body)
  \/ CatalogFailed
  \/ \E term \in SearchTerms : SetSearchTerm(term)
  \/ \E pid \in ProductIds : SelectProduct(pid)
  \/ \E r \in inflight :
       \E data \in SuccessBodies(r) : LogsLoaded(r, data)

SpecSearch == Init /\ [][SearchNext]_vars

\* The successful responses followed to their end: the data object with
\* each entry list of the product or none, and with no pagination or that of
\* the longest log.
LiveBodies(r) ==
  [logs : {Missing} \cup {Present(l) : l \in LogLists(r.pid)},
   pagination : {Missing, Present(ServedPagination(r.page, MaxPages))}]

\* The status class a failure of each kind arrives with.
LiveNet(kind) == IF kind = "reject" THEN "rejected" ELSE "2xx"

\* The response to the log request numbered id, whatever its outcome: the
\* continuation of fetchLogs after its awaits.
LogsResponse(id) ==
  \E r \in inflight :
    /\ r.id = id
    /\ \/ \E data \in LiveBodies(r) : LogsLoaded(r, data)
       \/ \E kind \in FailureKinds : LogsFailed(r, kind, LiveNet(kind))

\* The response to productsApi.getAll(), whatever its outcome.
CatalogResponse ==
  \/ \E body \in {Missing, Present(Catalog)} : CatalogLoaded(body)
  \/ CatalogFailed

\* The viewer with every user operation and every outcome of a request.
LiveNext ==
  \/ Mount
  \/ CatalogResponse
  \/ \E pid \in ProductIds : SelectProduct(pid)
  \/ Refresh
  \/ Previous
  \/ NextPage
  \/ \E id \in 1..MaxRequests : LogsResponse(id)

\* What the runtime guarantees: the mount effect runs, and every request
\* issued resolves or rejects. Nothing obliges the user to act.
Fairness ==
  /\ WF_vars(Mount)
  /\ WF_vars(CatalogResponse)
  /\ \A id \in 1..MaxRequests : WF_vars(LogsResponse(id))

\* The viewer whose requests all come back.
SpecLive == Init /\ [][LiveNext]_vars /\ Fairness

-----------------------------------------------------------------------------
(* Inventory Log Viewer: properties *)

\* C1: once no request is in flight and the most recently issued request was
\* answered successfully, the held logs and pagination are the ones returned
\* for the selected product and the most recently requested page; a response
\* to an older request never replaces them.  Stated for the states in which
\* a list of entries is on screen.
C1_NoStaleOverwrite ==
  (inflight = {} /\ latest.outcome = "ok" /\ ListShown)
    => /\ logsFor = [pid |-> selectedProductId, page |-> latest.page]
       /\ \A i \in 1..Len(logs) : logs[i].productId = selectedProductId

\* C2: a selection change issues exactly one log request, for the new
\* product and page 1, and from that step on no log entry of the previously
\* selected product is part of the held log state.
C2_SelectionDiscardsPriorLogs ==
  [][selectedProductId' # selectedProductId =>
       /\ nreq' = nreq + 1
       /\ \E r \in inflight' : /\ inflight' \ inflight = {r}
                               /\ r.pid = selectedProductId'
                               /\ r.page = 1
       /\ \A i \in 1..Len(logs') : logs'[i].productId # selectedProductId]_vars

\* C3: Previous is disabled at currentPage <= 1 and Next at
\* currentPage >= totalPages, so a request issued through either asks, for
\* the selected product, for a page within 1..totalPages of the held
\* pagination that is exactly one away from the held currentPage.
C3_NavigationWithinBounds ==
  /\ []((ENABLED Previous) => pagination.currentPage > 1)
  /\ []((ENABLED NextPage) => pagination.currentPage < pagination.totalPages)
  /\ [][lastOp'.op \in {"previous", "next"} =>
          /\ nreq' = nreq + 1
          /\ \A r \in inflight' \ inflight :
               /\ r.pid = selectedProductId
               /\ r.page \in 1..pagination.totalPages
               /\ r.page - pagination.currentPage \in {-1, 1}]_vars

\* C3 witness: Previous was clicked on a page reached through Next, and its
\* request for the page before is in flight.
C3_Witness ==
  /\ lastOp.op = "previous"
  /\ \E r \in inflight : r.id = nreq /\ r.page = pagination.currentPage - 1

\* C4: right after a successful response with currentPage = 1 and
\* totalPages = 3 is committed, Next is rendered and enabled and Previous is
\* disabled, whatever the returned list of logs.
C4_NextEnabledAfterThreePages ==
  (/\ lastOp.op = "logsResponse"
   /\ lastOp.kind = "ok"
   /\ pagination.currentPage = 1
   /\ pagination.totalPages = 3)
    => (PaginationShown /\ ~NextDisabled /\ PrevDisabled)

\* C5 as stated: when a log request fails, logs and pagination are what they
\* were when that request was issued, and loading is cleared.  Stated for a
\* failing request that a later request has superseded, where the held logs
\* are those returned for that later request.
C5_FailureRestoresStateAtIssue ==
  [][(lastOp'.op = "logsResponse" /\ lastOp'.kind \in FailureKinds) =>
       \A r \in inflight \ inflight' :
         (/\ r.id < latest.id
          /\ latest.outcome = "ok"
          /\ logsFor = [pid |-> latest.pid, page |-> latest.page])
           => /\ logs' = r.held.logs
              /\ pagination' = r.held.pagination
              /\ loading' = FALSE]_vars

\* C5 amended: the handling of a failed log request leaves logs and
\* pagination as they were immediately before the failure was handled and
\* clears loading, and whatever the try block threw was caught.
C5_FailureLeavesLogsUntouched ==
  [][(lastOp'.op = "logsResponse" /\ lastOp'.kind \in FailureKinds) =>
       /\ logs' = logs
       /\ pagination' = pagination
       /\ loading' = FALSE
       /\ Throws(lastOp'.kind) => lastOp'.toast]_vars

\* C5 witness: a log request has just failed while a list of logs loaded
\* earlier is held.
C5_Witness ==
  /\ lastOp.op = "logsResponse"
  /\ lastOp.kind \in FailureKinds
  /\ Len(logs) > 0
  /\ ~loading

\* C6: a rejected fetch or a non-2xx response, of the catalog request or of
\* a log request, raises a notification.
C6_NetworkFailureRaisesToast ==
  (/\ lastOp.op \in {"catalogResponse", "logsResponse"}
   /\ lastOp.net \in {"rejected", "non2xx"})
    => lastOp.toast

\* C7: the catalog is requested once, on mount, and goes loading -> loaded
\* or loading -> failed; after a failure the catalog is empty, the toast was
\* raised and productsLoading is false; no handler but a selection change,
\* a page navigation or a refresh issues a log request, and none but the
\* mount effect a catalog request.
C7_CatalogOnceNoRetry ==
  /\ [](ncat <= 1 /\ (catalogReq # "idle" => ncat = 1))
  /\ [](catalogReq = "failed" => (products = <<>> /\ ~productsLoading))
  /\ []((lastOp.op = "catalogResponse" /\ lastOp.kind = "reject")
          => (lastOp.toast /\ catalogReq = "failed"))
  /\ [][catalogReq' # catalogReq =>
          <<catalogReq, catalogReq'>> \in
            {<<"idle", "loading">>, <<"loading", "loaded">>,
             <<"loading", "failed">>}]_vars
  /\ [][ncat' # ncat => lastOp'.op = "mount"]_vars
  /\ [][nreq' # nreq => lastOp'.op \in UserOps]_vars

\* C7 witness: the catalog request failed, the toast was raised, and the
\* viewer is at rest.
C7_Witness ==
  /\ catalogReq = "failed"
  /\ lastOp.op = "catalogResponse"
  /\ lastOp.toast
  /\ ncat = 1

-----------------------------------------------------------------------------
(* Log Type Classifier: properties *)

\* C9: the classifier is case-insensitive with five outcomes: two type
\* strings equal after lower-casing get the same descriptor; sale, purchase,
\* adjustment and return in any letter case get four descriptors that differ
\* from each other and from the default; every other string, the empty one
\* included, gets the default descriptor.
C9_CaseInsensitiveFiveOutcomes ==
  (typeStyles # NotClassified /\ typeInput # Undefined) =>
    /\ \A u \in TypeInputs \ {Undefined} :
         toLowerCase(u) = toLowerCase(typeInput)
           => getLogTypeStyles(u) = typeStyles
    /\ IsCaseVariant(typeInput, StrSale) => typeStyles = SaleStyles
    /\ IsCaseVariant(typeInput, StrPurchase) => typeStyles = PurchaseStyles
    /\ IsCaseVariant(typeInput, StrAdjustment) => typeStyles = AdjustmentStyles
    /\ IsCaseVariant(typeInput, StrReturn) => typeStyles = ReturnStyles
    /\ (\A w \in RecognisedTypes : ~IsCaseVariant(typeInput, w))
         => typeStyles = DefaultStyles
    /\ Cardinality({SaleStyles, PurchaseStyles, AdjustmentStyles,
                    ReturnStyles, DefaultStyles}) = 5

\* C9 witness: "Sale" has been classified as a sale.
C9_Witness ==
  /\ typeInput = <<"S", "a", "l", "e">>
  /\ typeStyles = SaleStyles

\* C10: applied to a missing type, the classifier returns the default
\* descriptor.
C10_MissingTypeGetsDefault ==
  (typeInput = Undefined /\ typeStyles # NotClassified)
    => typeStyles = DefaultStyles

-----------------------------------------------------------------------------
(* Monthly Report Widget: properties *)

\* C8: whatever the shape of the response (no data object, no category
\* list, a category without a name), the widget renders one of its panels
\* and throws nothing.
C8_MalformedResponseNeverThrows ==
  Panel \in {"skeleton", "error", "empty", "charts"}

-----------------------------------------------------------------------------
(* Magnitude Formatter: properties *)

\* The n with n / 10^f nearest to num / d; both neighbours when num / d lies
\* exactly half-way between them.
NearestFixed(num, d, f) ==
  LET part == (num % d) * Pow10(f)
  IN {(num \div d) * Pow10(f) + m : m \in
        {m \in {part \div d, part \div d + 1} :
           LET diff == m * d - part
           IN 2 * (IF diff < 0 THEN -diff ELSE diff) <= d}}

\* C11: the bracket is chosen top-down, first match wins: from 10,000,000
\* the value over 10,000,000 to 2 decimals and ' Cr', from 100,000 the value
\* over 100,000 to 2 decimals and ' Lac', from 1,000 the value over 1,000 to
\* 1 decimal and 'K', below that the integer itself, and '0' for NaN; the
\* five examples of the specification come out as written, and both copies
\* of formatNumber return the same string.
C11_BracketsTopDown ==
  formatted # NotFormatted =>
    /\ formatted.legacy = formatted.enhanced
    /\ value.nan => formatted.legacy = <<"0">>
    /\ (~value.nan /\ value.n >= 10000000) =>
         \E n \in NearestFixed(value.n, 10000000, 2) :
           formatted.legacy = FixedString(n, 2) \o <<" ", "C", "r">>
    /\ (~value.nan /\ value.n >= 100000 /\ value.n < 10000000) =>
         \E n \in NearestFixed(value.n, 100000, 2) :
           formatted.legacy = FixedString(n, 2) \o <<" ", "L", "a", "c">>
    /\ (~value.nan /\ value.n >= 1000 /\ value.n < 100000) =>
         \E n \in NearestFixed(value.n, 1000, 1) :
           formatted.legacy = FixedString(n, 1) \o <<"K">>
    /\ (~value.nan /\ value.n < 1000) => formatted.legacy = ToDecimal(value.n)
    /\ value = Num(0) => formatted.legacy = <<"0">>
    /\ value = Num(999) => formatted.legacy = <<"9", "9", "9">>
    /\ value = Num(1500) => formatted.legacy = <<"1", ".", "5", "K">>
    /\ value = Num(150000) =>
         formatted.legacy = <<"1", ".", "5", "0", " ", "L", "a", "c">>
    /\ value = Num(15000000) =>
         formatted.legacy = <<"1", ".", "5", "0", " ", "C", "r">>

\* C11 witness: 15,000,000 has been formatted as '1.50 Cr'.
C11_Witness ==
  /\ value = Num(15000000)
  /\ formatted # NotFormatted
  /\ formatted.enhanced = <<"1", ".", "5", "0", " ", "C", "r">>

-----------------------------------------------------------------------------
(* Monthly Report Widget: properties of the derived views *)

\* The volume and the revenue of a category of the mounted widget.
VolumeOf(cat) ==
  IF widget = "legacy" THEN cat.totalQuantity ELSE NumOrElse(cat.unitsSold, 0)

RevenueOf(cat) ==
  IF widget = "legacy" THEN cat.totalRevenue ELSE NumOrElse(cat.revenue, 0)

\* The rank of the k-th category of the input: the number of categories of
\* larger volume, or of the same volume and earlier in the input.
RankOf(k) ==
  Cardinality({j \in 1..Len(Categories) :
     \/ VolumeOf(Categories[j]) > VolumeOf(Categories[k])
     \/ VolumeOf(Categories[j]) = VolumeOf(Categories[k]) /\ j < k})

\* The views are derived: the render did not throw on a nameless category.
ViewsDerived == widget # "none" /\ ~NamelessIn(Categories)

\* C12: each projection has min(N, input length) entries (8 for the bar
\* chart, 6 for the pie chart, 10 for the table); the category of rank r of
\* the input is at position r of every projection it fits in, with its own
\* volume and revenue, so the order is by volume descending, categories of
\* equal volume keep their input order and the revenue has no influence; A
\* (100 units) before B (300 units) gives B first and A second.
C12_RankedByVolumeStable ==
  ViewsDerived =>
    /\ Len(barChartData) = Min(8, Len(Categories))
    /\ Len(pieChartData) = Min(6, Len(Categories))
    /\ Len(tableRows) = Min(10, Len(Categories))
    /\ \A i \in 1..Len(tableRows), j \in 1..Len(tableRows) :
         i < j => tableRows[i].quantity >= tableRows[j].quantity
    /\ \A k \in 1..Len(Categories) :
         LET r == RankOf(k) + 1
             cat == Categories[k]
         IN /\ r <= 8 => /\ barChartData[r].fullName = cat.category
                         /\ barChartData[r].quantity = VolumeOf(cat)
                         /\ barChartData[r].revenue = RevenueOf(cat)
            /\ r <= 6 => /\ pieChartData[r].value = VolumeOf(cat)
                         /\ pieChartData[r].revenue = RevenueOf(cat)
            /\ r <= 10 => /\ tableRows[r].name = cat.category
                          /\ tableRows[r].quantity = VolumeOf(cat)
                          /\ tableRows[r].revenue = RevenueOf(cat)
    /\ (Len(Categories) = 2 /\ Categories[1].category = NameA
          /\ Categories[2].category = NameB)
         => (barChartData[1].fullName = NameB /\ barChartData[2].fullName = NameA)

\* C12 witness: the charts are shown for more than 10 categories, two of
\* the first six of which have the same volume.
C12_Witness ==
  /\ Panel = "charts"
  /\ ViewsDerived
  /\ Len(Categories) > 10
  /\ Len(tableRows) = 10
  /\ \E i \in 1..5 : pieChartData[i].value = pieChartData[i + 1].value

EndsWithMarker(name) ==
  Len(name) >= 3 /\ SubSeq(name, Len(name) - 2, Len(name)) = <<".", ".", ".">>

\* C13 as stated: a display name ends with the marker if and only if the
\* original name is longer than the limit of its projection.
C13_MarkerIffLonger ==
  ViewsDerived =>
    \A k \in 1..Len(Categories) :
      LET r == RankOf(k) + 1
          original == Categories[k].category
      IN /\ r <= 8 => (EndsWithMarker(barChartData[r].name) <=> Len(original) > 12)
         /\ r <= 6 => (EndsWithMarker(pieChartData[r].name) <=> Len(original) > 15)

\* C13 amended: a name longer than the limit (12 for the bar chart, 15 for
\* the pie chart) is shown as its first limit characters followed by the
\* marker, a name at or under the limit is shown unchanged (so it ends with
\* the marker exactly when the original does), and the table shows every
\* name unchanged.
C13_TruncatedIffLonger ==
  ViewsDerived =>
    \A k \in 1..Len(Categories) :
      LET r == RankOf(k) + 1
          original == Categories[k].category
      IN /\ r <= 8 =>
              barChartData[r].name =
                IF Len(original) > 12
                  THEN SubSeq(original, 1, 12) \o <<".", ".", ".">>
                  ELSE original
         /\ r <= 6 =>
              pieChartData[r].name =
                IF Len(original) > 15
                  THEN SubSeq(original, 1, 15) \o <<".", ".", ".">>
                  ELSE original
         /\ r <= 10 => tableRows[r].name = original

\* C13 witness: the charts show names of 12, 13, 15 and 16 characters.
C13_Witness ==
  /\ Panel = "charts"
  /\ ViewsDerived
  /\ \A n \in {12, 13, 15, 16} :
       \E k \in 1..Len(Categories) :
         Len(Categories[k].category) = n /\ RankOf(k) < 6

C15_TotalsPreferBackendFigure ==
  (widget = "enhanced" /\ Panel \in {"empty", "charts"}) =>
    /\ totalQuantitySold = SumUnitsSold(categoryPerformance)
    /\ monthRevenue # Missing => totalRevenue = monthRevenue[1]
    /\ monthRevenue = Missing => totalRevenue = SumRevenue(categoryPerformance)

\* C16: the widget shows exactly one of four panels, chosen by the state of
\* its query: the skeleton while the first query is loading, the failure
\* message whenever the query is in the error state, the empty-state panel
\* when the query succeeded with an empty category set, and the charts and
\* the table otherwise.
C16_PanelFollowsQueryState ==
  widget # "none" =>
    Panel = IF isLoading THEN "skeleton"
            ELSE IF query.error THEN "error"
            ELSE IF Len(Categories) = 0 THEN "empty"
            ELSE "charts"

-----------------------------------------------------------------------------
(* Inventory Log Viewer: properties of what is shown *)

\* C17: the delta shown for an entry is balanceAfter - balanceBefore,
\* whatever its quantity field: a negative delta with its minus sign and the
\* downward indicator (50 -> 30 shows '-20'), a delta >= 0 with a leading
\* '+' and the upward indicator.
C17_DeltaIsBalanceDifference ==
  (ListShown /\ ~RenderThrows) =>
    \A i \in 1..Len(logs) :
      LET d == logs[i].balanceAfter - logs[i].balanceBefore
          shown == DeltaShown(logs[i])
      IN /\ d < 0 => /\ shown.text = <<"-">> \o ToDecimal(-d)
                     /\ shown.icon = "TrendingDown"
         /\ d >= 0 => /\ shown.text = <<"+">> \o ToDecimal(d)
                      /\ shown.icon = "TrendingUp"
         /\ (logs[i].balanceBefore = 50 /\ logs[i].balanceAfter = 30)
              => shown.text = <<"-", "2", "0">>

\* C17 witness: the list on screen has an entry 50 -> 30 whose quantity
\* field is 20, an entry with no change and an entry with a gain.
C17_Witness ==
  /\ ListShown
  /\ ~RenderThrows
  /\ \E i \in 1..Len(logs) :
       /\ logs[i].balanceBefore = 50
       /\ logs[i].balanceAfter = 30
       /\ logs[i].quantity = 20
  /\ \E i \in 1..Len(logs) : logs[i].balanceAfter = logs[i].balanceBefore
  /\ \E i \in 1..Len(logs) : logs[i].balanceAfter > logs[i].balanceBefore

\* s contains t, letter case aside.
ContainsIgnoringCase(str, t) ==
  \E i \in 0..(Len(str) - Len(t)) :
    \A j \in 1..Len(t) : LowerChar(str[i + j]) = LowerChar(t[j])

\* The product matches the search term by its name or by its sku.
Matches(p, t) ==
  \/ p.name # Undefined /\ ContainsIgnoringCase(p.name, t)
  \/ p.sku # Undefined /\ ContainsIgnoringCase(p.sku, t)

\* C18: the dropdown lists exactly the products of the catalog whose name or
\* sku contains the search term, letter case aside, in the order of the
\* catalog, and the whole catalog for an empty term; typing in the search
\* box issues no request and leaves the selection, the logs, the pagination
\* and the loading flag as they are.
C18_SearchFiltersLocally ==
  /\ [](\A i \in 1..Len(products) :
          (\E k \in 1..Len(filteredProducts) : filteredProducts[k] = products[i])
            <=> (searchTerm = <<>> \/ Matches(products[i], searchTerm)))
  /\ [](\A k \in 1..Len(filteredProducts), l \in 1..Len(filteredProducts) :
          k < l =>
            \E i \in 1..Len(products), j \in 1..Len(products) :
              i < j /\ products[i] = filteredProducts[k]
                    /\ products[j] = filteredProducts[l])
  /\ [](searchTerm = <<>> => filteredProducts = products)
  /\ [][searchTerm' # searchTerm =>
          UNCHANGED <<selectedProductId, logs, pagination, loading, products,
                      inflight, nreq, ncat>>]_vars

\* C18 witness: with the catalog loaded and a product selected, 'DG' is in
\* the search box and both products are listed; or 'w1' is, and only the
\* product with that sku is listed.
C18_Witness ==
  /\ Len(products) = 2
  /\ selectedProductId # ""
  /\ lastOp.op = "search"
  /\ \/ searchTerm = <<"D", "G">> /\ Len(filteredProducts) = 2
     \/ searchTerm = <<"w", "1">> /\ Len(filteredProducts) = 1

\* C19: the loading flag is true whenever a log request is in flight, so
\* that the completion of one of two overlapping requests does not clear it
\* while the other is pending.
C19_LoadingWhileInFlight == inflight # {} => loading

\* C20: a request issued by Refresh, Previous or Next is for the selected
\* product, and for a page computed from a pagination that was not returned
\* for another product.  Stated for a held pagination of several pages.
C20_PageFromSameProduct ==
  [][(lastOp'.op \in {"refresh", "previous", "next"}
        /\ pagination.totalPages > 1) =>
       \A r \in inflight' \ inflight :
         /\ r.pid = selectedProductId
         /\ logsFor.pid \in {"", selectedProductId}]_vars


\* C21: when every request issued comes back, the viewer leaves its loading
\* states: productsLoading becomes false and stays false, every period with
\* loading set ends, and once the user has stopped selecting, paging and
\* refreshing loading is false for good, whether the responses were
\* successes, success=false bodies or exceptions.
C21_LoadingStatesEnd ==
  /\ <>[](~productsLoading)
  /\ loading ~> ~loading
  /\ <>[](~loading)

\* C21: all the requests allowed were issued, the last of them failed, none
\* is left in flight and both flags are down.
C21_Witness ==
  /\ nreq = MaxRequests
  /\ inflight = {}
  /\ latest.outcome = "failed"
  /\ catalogReq \in {"loaded", "failed"}
  /\ ~loading
  /\ ~productsLoading

\* C22: the projections agree rank by rank. The pie chart is no longer than
\* the bar chart, which is no longer than the table; the entry at position i
\* of the bar chart is the category of row i of the table, with its volume,
\* its revenue and its color; the entry at position i of the pie chart is
\* the category at position i of the bar chart, with its volume, its revenue
\* and its color, the name cut at 15 characters; and within one projection no
\* two entries have the same color.
C22_ProjectionsAgree ==
  ViewsDerived =>
    /\ Len(pieChartData) <= Len(barChartData)
    /\ Len(barChartData) <= Len(tableRows)
    /\ \A i \in 1..Len(barChartData) :
         /\ barChartData[i].fullName = tableRows[i].name
         /\ barChartData[i].quantity = tableRows[i].quantity
         /\ barChartData[i].revenue = tableRows[i].revenue
         /\ barChartData[i].fill = tableRows[i].color
    /\ \A i \in 1..Len(pieChartData) :
         /\ pieChartData[i].name = Truncate(barChartData[i].fullName, 15)
         /\ pieChartData[i].value = barChartData[i].quantity
         /\ pieChartData[i].revenue = barChartData[i].revenue
         /\ pieChartData[i].color = barChartData[i].fill
    /\ \A i \in 1..Len(tableRows), j \in 1..Len(tableRows) :
         i # j => tableRows[i].color # tableRows[j].color
    /\ \A i \in 1..Len(barChartData), j \in 1..Len(barChartData) :
         i # j => barChartData[i].fill # barChartData[j].fill
    /\ \A i \in 1..Len(pieChartData), j \in 1..Len(pieChartData) :
         i # j => pieChartData[i].color # pieChartData[j].color

\* C22: more than 10 categories, so that each projection is a proper prefix
\* of the next, with a category in the pie chart whose name the bar chart cut
\* and the pie chart did not, and the order by volume differing from the
\* order by revenue among the first 6.
C22_Witness ==
  /\ Panel = "charts"
  /\ ViewsDerived
  /\ Len(Categories) > 10
  /\ Len(pieChartData) = 6 /\ Len(barChartData) = 8 /\ Len(tableRows) = 10
  /\ \E i \in 1..6 : pieChartData[i].name # barChartData[i].name
  /\ \E i \in 1..5 : pieChartData[i].revenue < pieChartData[i + 1].revenue

=============================================================================
